---- MODULE Spec2Model ----
(***************************************************************************)
(* Order lifecycle and table-status synchronisation of the POS back end.   *)
(* The store is the SQLite database of lib/database (tables, menu_items,   *)
(* orders, order_items); every action is one REST handler, run to its      *)
(* response.  better-sqlite3 is synchronous and no handler awaits between  *)
(* its first and its last statement, so a handler is one step.             *)
(* Prices are integers (10 for 10.00).                                     *)
(***************************************************************************)
EXTENDS Integers, Sequences, FiniteSets, TLC

\* ---------------------------------------------------------------- bounds
NumTables == 2      \* rows of `tables` (ids 1..NumTables)
MaxOrders == 2      \* orders ever inserted (AUTOINCREMENT ids 1..MaxOrders)
MaxItems  == 2      \* lines of one create-order request
MaxQty    == 2      \* largest quantity of a request line

\* ------------------------------------------------------------ the schema
NULL == -1          \* SQL NULL / JS null in an integer column

TableStatuses == {"Free", "Occupied", "Serving", "Billing"}

OrderStatuses == {"Pending", "Preparing", "Ready", "Served", "Paid"}

\* columns of the orders table, as created by initializeDatabase
OrdersColumns ==
    {"id", "table_id", "total_amount", "status", "staff_id", "created_at", "updated_at"}

\* menu rows present after seeding: Caprese Salad 10.00, Fresh Orange Juice 5.00
SeedMenu == <<[price |-> 10], [price |-> 5]>>

\* staff rows present after seeding: James Smith (id 1)
SeedStaff == {1}

\* tablesData of seedDatabase: the status and customer_count of tables 1, 2, ...
SeedTables ==
    <<[status |-> "Free", customer_count |-> NULL],
      [status |-> "Occupied", customer_count |-> 4],
      [status |-> "Serving", customer_count |-> NULL],
      [status |-> "Free", customer_count |-> NULL],
      [status |-> "Occupied", customer_count |-> 2],
      [status |-> "Billing", customer_count |-> NULL]>>

VARIABLES
    tables,        \* id -> [status, customer_count]
    menu_items,    \* id -> [price]
    staff,         \* the ids of the rows of `staff`
    orders,        \* id -> [table_id, total_amount, status, staff_id]
    order_items,   \* sequence of rows [order_id, menu_item_id, quantity, unit_price, subtotal]
    nextOrderId,   \* next AUTOINCREMENT id of orders
    cart,          \* the item list the client submits with a create-order request
    waiter,        \* the staffId the client submits when it assigns an order
    txn,           \* the open transaction of the PUT handler, statement by statement
    seen,          \* what the reader that has just read the store observed
    run,           \* the resync or the cancel in progress, statement by statement
    last,          \* the request just served and its response
    before,        \* the rows of `tables` as that request found them
    scen           \* progress of the order workflow on one table

vars ==
    <<tables, menu_items, staff, orders, order_items, nextOrderId,
      cart, waiter, txn, seen, run, last, before, scen>>

db == <<tables, menu_items, staff, orders, order_items, nextOrderId>>

\* --------------------------------------------------------------- inputs
TableIdInputs == 1..(NumTables + 1)

OrderIdInputs == 1..(MaxOrders + 1)

MenuIdInputs == 1..(Len(SeedMenu) + 1)

ItemInputs == [id : MenuIdInputs, quantity : 0..MaxQty]

ItemListInputs == UNION {[1..n -> ItemInputs] : n \in 0..MaxItems}

NoStatus == ""

\* a staffId that is absent from the body, or falsy (staffId || null)
NoStaff == 0

StaffIdInputs == {NoStaff} \cup 1..(Cardinality(SeedStaff) + 1)

StatusInputs == OrderStatuses \cup {NoStatus, "Cancelled"}

\* the cart of the order workflow: Caprese Salad x2, Fresh Orange Juice x1
WorkflowCart == <<[id |-> 1, quantity |-> 2], [id |-> 2, quantity |-> 1]>>

\* ------------------------------------------------- request and response
Request(op, id, status, staffId) ==
    [op |-> op, id |-> id, status |-> status, staffId |-> staffId]

\* code: the HTTP status; orderId: lastInsertRowid of a create;
\* tableId: existingOrder.tableId of an update or a cancel that went through
Response(req, code, orderId, tableId) ==
    [op |-> req.op, id |-> req.id, status |-> req.status, staffId |-> req.staffId,
     code |-> code, orderId |-> orderId, tableId |-> tableId]

Fail(req, code) ==
    /\ last' = Response(req, code, 0, 0)
    /\ UNCHANGED db

\* -------------------------------------------------------------- queries
\* SELECT ... FROM order_items WHERE order_id = ?
ItemsOf(rows, orderId) ==
    LET Test(r) == r.order_id = orderId IN SelectSeq(rows, Test)

RECURSIVE SumSubtotals(_)
SumSubtotals(rows) ==
    IF rows = <<>> THEN 0 ELSE Head(rows).subtotal + SumSubtotals(Tail(rows))

RECURSIVE SumQuantity(_)
SumQuantity(rows) ==
    IF rows = <<>> THEN 0 ELSE Head(rows).quantity + SumQuantity(Tail(rows))

\* --------------------------------------------------- POST /api/orders
LineSubtotalQuantityOnly(price, quantity) == quantity

LineSubtotal(price, quantity) == price * quantity

OrderItemData(item, menu) ==
    [menuItemId |-> item.id, quantity |-> item.quantity,
     unitPrice |-> menu[item.id].price,
     subtotal |-> LineSubtotal(menu[item.id].price, item.quantity)]

Validated(code, totalAmount, orderItemsData) ==
    [code |-> code, totalAmount |-> totalAmount, orderItemsData |-> orderItemsData]

RECURSIVE ValidateItemsSkipMissing(_, _, _, _, _)
ValidateItemsSkipMissing(items, i, totalAmount, orderItemsData, menu) ==
    IF i > Len(items) THEN Validated(0, totalAmount, orderItemsData)
    ELSE IF items[i].id = 0 \/ items[i].quantity = 0 \/ items[i].quantity <= 0
    THEN Validated(400, totalAmount, orderItemsData)
    ELSE IF items[i].id \notin DOMAIN menu
    THEN ValidateItemsSkipMissing(items, i + 1, totalAmount, orderItemsData, menu)
    ELSE ValidateItemsSkipMissing(items, i + 1,
             totalAmount + OrderItemData(items[i], menu).subtotal,
             Append(orderItemsData, OrderItemData(items[i], menu)), menu)

\* the loop over the request's items: the first bad line ends the request
RECURSIVE ValidateItems(_, _, _, _, _)
ValidateItems(items, i, totalAmount, orderItemsData, menu) ==
    IF i > Len(items) THEN Validated(0, totalAmount, orderItemsData)
    ELSE IF items[i].id = 0 \/ items[i].quantity = 0 \/ items[i].quantity <= 0
    THEN Validated(400, totalAmount, orderItemsData)
    ELSE IF items[i].id \notin DOMAIN menu
    THEN Validated(404, totalAmount, orderItemsData)
    ELSE ValidateItems(items, i + 1,
             totalAmount + OrderItemData(items[i], menu).subtotal,
             Append(orderItemsData, OrderItemData(items[i], menu)), menu)

\* the loop of the second POST handler: no check of the quantity, and a
\* missing menu item is a 400
RECURSIVE ValidateItemsV2(_, _, _, _, _)
ValidateItemsV2(items, i, totalAmount, orderItems, menu) ==
    IF i > Len(items) THEN Validated(0, totalAmount, orderItems)
    ELSE IF items[i].id \notin DOMAIN menu
    THEN Validated(400, totalAmount, orderItems)
    ELSE ValidateItemsV2(items, i + 1,
             totalAmount + OrderItemData(items[i], menu).subtotal,
             Append(orderItems, OrderItemData(items[i], menu)), menu)

\* INSERT INTO orders (table_id, total_amount, status, staff_id)
\* VALUES (?, ?, 'Pending', ?), the last bound to staffId || null
InsertOrder(ords, orderId, tableId, totalAmount, staffId) ==
    [o \in DOMAIN ords \cup {orderId} |->
        IF o = orderId
        THEN [table_id |-> tableId, total_amount |-> totalAmount, status |-> "Pending",
              staff_id |-> IF staffId = NoStaff THEN NULL ELSE staffId]
        ELSE ords[o]]

OrderItemRow(orderId, data) ==
    [order_id |-> orderId, menu_item_id |-> data.menuItemId, quantity |-> data.quantity,
     unit_price |-> data.unitPrice, subtotal |-> data.subtotal]

InsertOrderItemsButLast(rows, orderId, orderItemsData) ==
    rows \o [k \in 1..(Len(orderItemsData) - 1) |-> OrderItemRow(orderId, orderItemsData[k])]

\* for (const item of orderItemsData) orderItemStmt.run(orderId, ...)
InsertOrderItems(rows, orderId, orderItemsData) ==
    rows \o [k \in 1..Len(orderItemsData) |-> OrderItemRow(orderId, orderItemsData[k])]

CreateTableStatusIfFree(old) == IF old = "Free" THEN "Occupied" ELSE old

\* UPDATE tables SET status = 'Occupied' WHERE id = ?
CreateTableStatus(old) == "Occupied"

\* db.transaction of both POST handlers
CreateTransaction(req, tableId, v) ==
    /\ nextOrderId <= MaxOrders
    /\ orders' = InsertOrder(orders, nextOrderId, tableId, v.totalAmount, req.staffId)
    /\ order_items' = InsertOrderItems(order_items, nextOrderId, v.orderItemsData)
    /\ tables' = [tables EXCEPT ![tableId].status = CreateTableStatus(@)]
    /\ nextOrderId' = nextOrderId + 1
    /\ last' = Response(req, 201, nextOrderId, tableId)
    /\ UNCHANGED <<menu_items, staff>>

\* a staff_id without its row fails the foreign key: the statement throws, the
\* transaction rolls back and the handler answers 500
CreateOrder(tableId, items, staffId) ==
    LET req == Request("create", tableId, NoStatus, staffId)
        v == ValidateItems(items, 1, 0, <<>>, menu_items)
    IN  IF tableId = 0 \/ Len(items) = 0 THEN Fail(req, 400)
        ELSE IF tableId \notin DOMAIN tables THEN Fail(req, 404)
        ELSE IF v.code # 0 THEN Fail(req, v.code)
        ELSE IF staffId # NoStaff /\ staffId \notin staff THEN Fail(req, 500)
        ELSE CreateTransaction(req, tableId, v)

\* the second POST handler: only the foreign key checks the table, and the
\* body's staffId is not read
CreateOrderV2(tableId, items) ==
    LET req == Request("createV2", tableId, NoStatus, NoStaff)
        v == ValidateItemsV2(items, 1, 0, <<>>, menu_items)
    IN  IF tableId = 0 \/ Len(items) = 0 THEN Fail(req, 400)
        ELSE IF v.code # 0 THEN Fail(req, v.code)
        ELSE IF tableId \notin DOMAIN tables THEN Fail(req, 500)
        ELSE CreateTransaction(req, tableId, v)

\* ------------------------------------------------ PUT /api/orders/[id]
\* SELECT COUNT(*) FROM orders WHERE table_id = ? AND status NOT IN ('Paid') AND id != ?
OtherActiveCount(ords, tableId, orderId) ==
    Cardinality({o \in DOMAIN ords :
        ords[o].table_id = tableId /\ ords[o].status # "Paid" /\ o # orderId})

PutTableStatusPaidSwapped(status, activeOrdersCount) ==
    IF status \in {"Pending", "Preparing"} THEN "Occupied"
    ELSE IF status \in {"Ready", "Served"} THEN "Serving"
    ELSE IF activeOrdersCount > 0 THEN "Billing" ELSE "Occupied"

PutTableStatusWaitingFirst(status, activeOrdersCount) ==
    IF status \in {"Pending", "Preparing"} THEN "Occupied"
    ELSE IF status \in {"Ready", "Served"}
         THEN IF activeOrdersCount > 0 THEN "Occupied" ELSE "Serving"
    ELSE IF activeOrdersCount > 0 THEN "Occupied" ELSE "Billing"

\* the switch on the new status of the order
PutTableStatus(status, activeOrdersCount) ==
    IF status \in {"Pending", "Preparing"} THEN "Occupied"
    ELSE IF status \in {"Ready", "Served"} THEN "Serving"
    ELSE IF activeOrdersCount > 0 THEN "Occupied" ELSE "Billing"

\* SET status = COALESCE(?, status), bound to status || null
PutStatus(status, column) == IF status = NoStatus THEN column ELSE status

PutStaffIdOverwrite(staffId, column) == IF staffId = NoStaff THEN NULL ELSE staffId

\* SET staff_id = COALESCE(?, staff_id), bound to staffId || null
PutStaffId(staffId, column) == IF staffId = NoStaff THEN column ELSE staffId

\* the rows of orders after the UPDATE of the handler
PutUpdateOrders(ords, orderId, status, staffId) ==
    [ords EXCEPT ![orderId].status = PutStatus(status, @),
                 ![orderId].staff_id = PutStaffId(staffId, @)]

\* the rows of tables after the UPDATE of the handler, which runs if (status)
PutUpdateTables(tbls, updated, orderId, status) ==
    IF status # NoStatus
    THEN [tbls EXCEPT ![updated[orderId].table_id].status =
             PutTableStatus(status,
                 OtherActiveCount(updated, updated[orderId].table_id, orderId))]
    ELSE tbls

PutRefusalAnyStatus(orderId, status, staffId) ==
    IF orderId \notin DOMAIN orders THEN 404
    ELSE IF staffId # NoStaff /\ staffId \notin staff THEN 500
    ELSE 0

\* the early responses of the handler, 0 if there is none; a staff_id without
\* its row fails the foreign key inside the transaction, which rolls back (500)
PutRefusal(orderId, status, staffId) ==
    IF status # NoStatus /\ status \notin OrderStatuses THEN 400
    ELSE IF orderId \notin DOMAIN orders THEN 404
    ELSE IF staffId # NoStaff /\ staffId \notin staff THEN 500
    ELSE 0

PutOrder(orderId, status, staffId) ==
    LET req == Request("put", orderId, status, staffId) IN
    IF PutRefusal(orderId, status, staffId) # 0
    THEN Fail(req, PutRefusal(orderId, status, staffId))
    ELSE LET updated == PutUpdateOrders(orders, orderId, status, staffId)
         IN  /\ orders' = updated
             /\ tables' = PutUpdateTables(tables, updated, orderId, status)
             /\ last' = Response(req, 200, 0, orders[orderId].table_id)
             /\ UNCHANGED <<menu_items, staff, order_items, nextOrderId>>

\* the same handler, statement by statement.  A transaction that is open
\* holds the rows as they were when it began: what it has written is in the
\* store for its own connection, and for everyone at its COMMIT.
NoTxn == [stage |-> 0]

\* up to the first UPDATE inside db.transaction
PutBegin(orderId, status, staffId) ==
    LET req == Request("put", orderId, status, staffId) IN
    /\ txn = NoTxn
    /\ IF PutRefusal(orderId, status, staffId) # 0
       THEN /\ Fail(req, PutRefusal(orderId, status, staffId))
            /\ UNCHANGED txn
       ELSE /\ orders' = PutUpdateOrders(orders, orderId, status, staffId)
            /\ txn' = [stage |-> 1, req |-> req, orders |-> orders, tables |-> tables]
            /\ UNCHANGED <<tables, menu_items, staff, order_items, nextOrderId, last>>

\* the UPDATE of tables, inside the same db.transaction
PutTable ==
    /\ txn.stage = 1
    /\ txn.req.status # NoStatus
    /\ tables' = PutUpdateTables(tables, orders, txn.req.id, txn.req.status)
    /\ txn' = [txn EXCEPT !.stage = 2]
    /\ UNCHANGED <<menu_items, staff, orders, order_items, nextOrderId, last>>

\* the transaction function returns: COMMIT, then the response
PutCommit ==
    /\ txn.stage = 2 \/ (txn.stage = 1 /\ txn.req.status = NoStatus)
    /\ txn' = NoTxn
    /\ last' = Response(txn.req, 200, 0, orders[txn.req.id].table_id)
    /\ UNCHANGED db

CommittedEveryStatement == [orders |-> orders, tables |-> tables]

\* the rows another request reads: those of the last COMMIT
Committed ==
    IF txn.stage = 0 THEN [orders |-> orders, tables |-> tables]
    ELSE [orders |-> txn.orders, tables |-> txn.tables]

\* a reader (GET /api/orders/[id], GET /api/tables/[id]) of an order and its
\* table; `during` is the stage of the PUT transaction open on that order
NoSeen == [id |-> 0, status |-> NoStatus, tableStatus |-> NoStatus, during |-> 0]

ReadOrder(orderId) ==
    /\ orderId \in DOMAIN Committed.orders
    /\ seen' = [id |-> orderId,
                status |-> Committed.orders[orderId].status,
                tableStatus |-> Committed.tables[Committed.orders[orderId].table_id].status,
                during |-> IF txn.stage # 0 /\ txn.req.id = orderId THEN txn.stage ELSE 0]
    /\ UNCHANGED <<db, last, txn>>

\* ----------------------------------------- PATCH /api/orders/[id]/status
\* db.prepare throws on a column the table does not have
Prepares(columns, tableColumns) == columns \subseteq tableColumns

\* SELECT COUNT(*) ... WHERE tableId = ? AND status IN ('Pending','Preparing','Ready','Served')
PatchActiveCount(ords, tableId) ==
    Cardinality({o \in DOMAIN ords :
        ords[o].table_id = tableId
        /\ ords[o].status \in {"Pending", "Preparing", "Ready", "Served"}})

PatchOrderStatus(orderId, status) ==
    LET req == Request("patch", orderId, status, NoStaff) IN
    IF status = NoStatus THEN Fail(req, 400)
    ELSE IF status \notin OrderStatuses THEN Fail(req, 400)
    ELSE IF ~Prepares({"status", "updatedAt", "id"}, OrdersColumns) THEN Fail(req, 500)
    ELSE IF orderId \notin DOMAIN orders THEN Fail(req, 404)
    ELSE LET tableId == orders[orderId].table_id
             updated == [orders EXCEPT ![orderId].status = status]
             paidOk == Prepares({"tableId", "id"}, OrdersColumns)
         IN  /\ orders' = updated
             /\ tables' = IF status = "Paid" /\ paidOk /\ PatchActiveCount(updated, tableId) = 0
                          THEN [tables EXCEPT ![tableId].status = "Free"]
                          ELSE tables
             /\ last' = Response(req, IF status = "Paid" /\ ~paidOk THEN 500 ELSE 200,
                                 0, tableId)
             /\ UNCHANGED <<menu_items, staff, order_items, nextOrderId>>

\* --------------------------------------------- DELETE /api/orders/[id]
ActiveCountPendingOnly(ords, tableId) ==
    Cardinality({o \in DOMAIN ords : ords[o].table_id = tableId /\ ords[o].status = "Pending"})

\* SELECT COUNT(*) FROM orders WHERE table_id = ? AND status NOT IN ('Paid')
ActiveCount(ords, tableId) ==
    Cardinality({o \in DOMAIN ords : ords[o].table_id = tableId /\ ords[o].status # "Paid"})

CancellableUnlessPaid(status) == status # "Paid"

\* existingOrder.status !== 'Pending' is refused
Cancellable(status) == status = "Pending"

\* the early responses of the handler, 0 if there is none
CancelRefusal(orderId) ==
    IF orderId \notin DOMAIN orders THEN 404
    ELSE IF ~Cancellable(orders[orderId].status) THEN 400
    ELSE 0

\* db.transaction of the handler: DELETE FROM orders WHERE id = ? (the cascade
\* deletes the lines), then the table is freed if no non-Paid order is left
CancelTransaction(req, orderId, tableId) ==
    LET remaining == [o \in DOMAIN orders \ {orderId} |-> orders[o]]
        Kept(r) == r.order_id # orderId
    IN  /\ orders' = remaining
        /\ order_items' = SelectSeq(order_items, Kept)
        /\ tables' = IF ActiveCount(remaining, tableId) = 0
                     THEN [tables EXCEPT ![tableId] =
                              [status |-> "Free", customer_count |-> NULL]]
                     ELSE tables
        /\ last' = Response(req, 200, 0, tableId)
        /\ UNCHANGED <<menu_items, staff, nextOrderId>>

CancelOrder(orderId) ==
    LET req == Request("cancel", orderId, NoStatus, NoStaff) IN
    IF CancelRefusal(orderId) # 0 THEN Fail(req, CancelRefusal(orderId))
    ELSE CancelTransaction(req, orderId, orders[orderId].table_id)

\* the same handler in its two parts: the SELECT of existingOrder with the
\* check of its status, then the transaction
NoRun == [op |-> "none"]

CancelAwaitsBeforeTransaction == TRUE

\* the handler awaits nothing between the check and the transaction
CancelAwaits == FALSE

CancelCheck(orderId) ==
    LET req == Request("cancel", orderId, NoStatus, NoStaff) IN
    /\ run = NoRun
    /\ IF CancelRefusal(orderId) # 0
       THEN /\ Fail(req, CancelRefusal(orderId))
            /\ UNCHANGED run
       ELSE /\ run' = [op |-> "cancel", req |-> req, tableId |-> orders[orderId].table_id]
            /\ UNCHANGED <<db, last>>

CancelDelete ==
    /\ run.op = "cancel"
    /\ CancelTransaction(run.req, run.req.id, run.tableId)
    /\ run' = NoRun

\* ------------------------------------------ POST /api/tables/sync-status
ActiveOrdersAnyStatus(ords, tableId) ==
    {o \in DOMAIN ords : ords[o].table_id = tableId}

\* the orders selected by WHERE table_id = ? AND status != 'Paid'
ActiveOrders(ords, tableId) ==
    {o \in DOMAIN ords : ords[o].table_id = tableId /\ ords[o].status # "Paid"}

\* SELECT status, COUNT(*) ... GROUP BY status: one row per status present
ActiveStatuses(ords, tableId) == {ords[o].status : o \in ActiveOrders(ords, tableId)}

\* SELECT SUM(oi.quantity) FROM orders o JOIN order_items oi ...: NULL over no rows
TotalCustomers(ords, rows, tableId) ==
    LET Joined(r) == r.order_id \in ActiveOrders(ords, tableId)
        joined == SelectSeq(rows, Joined)
    IN  IF joined = <<>> THEN NULL ELSE SumQuantity(joined)

SyncNewStatusServingFirst(activeStatuses) ==
    IF activeStatuses # {}
    THEN IF "Ready" \in activeStatuses \/ "Served" \in activeStatuses THEN "Serving"
         ELSE "Occupied"
    ELSE "Free"

SyncNewStatusReadyOnly(activeStatuses) ==
    IF activeStatuses # {}
    THEN IF "Pending" \in activeStatuses \/ "Preparing" \in activeStatuses THEN "Occupied"
         ELSE IF "Ready" \in activeStatuses THEN "Serving"
         ELSE "Occupied"
    ELSE "Free"

SyncNewStatusBillingWhenIdle(activeStatuses) ==
    IF activeStatuses # {}
    THEN IF "Pending" \in activeStatuses \/ "Preparing" \in activeStatuses THEN "Occupied"
         ELSE IF "Ready" \in activeStatuses \/ "Served" \in activeStatuses THEN "Serving"
         ELSE "Occupied"
    ELSE "Billing"

\* newStatus of one table, from the statuses of its active orders
SyncNewStatus(activeStatuses) ==
    IF activeStatuses # {}
    THEN IF "Pending" \in activeStatuses \/ "Preparing" \in activeStatuses THEN "Occupied"
         ELSE IF "Ready" \in activeStatuses \/ "Served" \in activeStatuses THEN "Serving"
         ELSE "Occupied"
    ELSE "Free"

\* customerCountValue of one table: totalCustomers when there are active
\* orders and the sum is truthy, else null
SyncCustomerCount(activeStatuses, totalCustomers) ==
    IF activeStatuses # {} /\ totalCustomers # NULL /\ totalCustomers # 0
    THEN totalCustomers ELSE NULL

\* updateTableStatus.run(newStatus, customerCountValue, table.id): the row
\* written for one table, from what was read for it
SyncRow(activeStatuses, totalCustomers) ==
    [status |-> SyncNewStatus(activeStatuses),
     customer_count |-> SyncCustomerCount(activeStatuses, totalCustomers)]

SyncTablesAccumulating(tbls, ords, rows) ==
    [t \in DOMAIN tbls |->
        [status |-> SyncNewStatus(ActiveStatuses(ords, t)),
         customer_count |->
            IF TotalCustomers(ords, rows, t) = NULL THEN NULL
            ELSE IF tbls[t].customer_count = NULL THEN TotalCustomers(ords, rows, t)
            ELSE tbls[t].customer_count + TotalCustomers(ords, rows, t)]]

\* the rows of tables after the loop over all the tables
SyncTables(tbls, ords, rows) ==
    [t \in DOMAIN tbls |->
        SyncRow(ActiveStatuses(ords, t), TotalCustomers(ords, rows, t))]

SyncStatusPurgingPaid ==
    /\ tables' = SyncTables(tables, orders, order_items)
    /\ orders' = [o \in {x \in DOMAIN orders : orders[x].status # "Paid"} |-> orders[o]]
    /\ last' = Response(Request("sync", 0, NoStatus, NoStaff), 200, 0, 0)
    /\ UNCHANGED <<menu_items, staff, order_items, nextOrderId>>

SyncStatus ==
    /\ tables' = SyncTables(tables, orders, order_items)
    /\ last' = Response(Request("sync", 0, NoStatus, NoStaff), 200, 0, 0)
    /\ UNCHANGED <<menu_items, staff, orders, order_items, nextOrderId>>

\* the same handler, statement by statement: for each table in turn the two
\* SELECTs, then the UPDATE
RECURSIVE Ascending(_)
Ascending(ids) ==
    IF ids = {} THEN <<>>
    ELSE LET least == CHOOSE x \in ids : \A y \in ids : x <= y
         IN  <<least>> \o Ascending(ids \ {least})

SyncAwaitsBetweenStatements == TRUE

\* the handler awaits nothing between its first SELECT and its last UPDATE
SyncAwaits == FALSE

\* SELECT id, number FROM tables
SyncBegin ==
    /\ run = NoRun
    /\ run' = [op |-> "sync", todo |-> Ascending(DOMAIN tables), pc |-> "read",
               activeStatuses |-> {}, totalCustomers |-> NULL]
    /\ UNCHANGED <<db, last>>

SyncRead ==
    /\ run.op = "sync" /\ run.pc = "read" /\ run.todo # <<>>
    /\ run' = [run EXCEPT !.pc = "write",
                          !.activeStatuses = ActiveStatuses(orders, Head(run.todo)),
                          !.totalCustomers =
                              TotalCustomers(orders, order_items, Head(run.todo))]
    /\ UNCHANGED <<db, last>>

SyncWrite ==
    /\ run.op = "sync" /\ run.pc = "write"
    /\ tables' = [t \in DOMAIN tables |->
          IF t = Head(run.todo) THEN SyncRow(run.activeStatuses, run.totalCustomers)
          ELSE tables[t]]
    /\ run' = [run EXCEPT !.pc = "read", !.todo = Tail(run.todo),
                          !.activeStatuses = {}, !.totalCustomers = NULL]
    /\ UNCHANGED <<menu_items, staff, orders, order_items, nextOrderId, last>>

SyncEnd ==
    /\ run.op = "sync" /\ run.pc = "read" /\ run.todo = <<>>
    /\ run' = NoRun
    /\ last' = Response(Request("sync", 0, NoStatus, NoStaff), 200, 0, 0)
    /\ UNCHANGED db

\* a request is served when no handler is between two of its statements,
\* unless that handler has yielded there
ThreadFree ==
    \/ run.op = "none"
    \/ run.op = "sync" /\ SyncAwaits
    \/ run.op = "cancel" /\ CancelAwaits

\* -------------------------------------------------- PUT /api/menu/[id]
\* the price of a menu item is replaced (the other fields are not modelled)
PriceInputs == {SeedMenu[i].price : i \in DOMAIN SeedMenu}

MenuPutRepricing(itemId, price) ==
    LET req == Request("menuPut", itemId, NoStatus, NoStaff) IN
    IF price <= 0 THEN Fail(req, 400)
    ELSE IF itemId \notin DOMAIN menu_items THEN Fail(req, 404)
    ELSE /\ menu_items' = [menu_items EXCEPT ![itemId].price = price]
         /\ order_items' = [k \in DOMAIN order_items |->
               IF order_items[k].menu_item_id = itemId
               THEN [order_items[k] EXCEPT !.unit_price = price,
                                           !.subtotal = price * order_items[k].quantity]
               ELSE order_items[k]]
         /\ last' = Response(req, 200, 0, 0)
         /\ UNCHANGED <<tables, staff, orders, nextOrderId>>

MenuPut(itemId, price) ==
    LET req == Request("menuPut", itemId, NoStatus, NoStaff) IN
    IF price <= 0 THEN Fail(req, 400)
    ELSE IF itemId \notin DOMAIN menu_items THEN Fail(req, 404)
    ELSE /\ menu_items' = [menu_items EXCEPT ![itemId].price = price]
         /\ last' = Response(req, 200, 0, 0)
         /\ UNCHANGED <<tables, staff, orders, order_items, nextOrderId>>

\* ----------------------------------------------- DELETE /api/menu/[id]
\* a function without one of its rows
Without(rows, id) == [x \in DOMAIN rows \ {id} |-> rows[x]]

\* order_items.menu_item_id REFERENCES menu_items (id) ON DELETE CASCADE
MenuDeleteCascade(rows, itemId) ==
    LET Kept(r) == r.menu_item_id # itemId IN SelectSeq(rows, Kept)

MenuDelete(itemId) ==
    LET req == Request("menuDelete", itemId, NoStatus, NoStaff) IN
    IF itemId \notin DOMAIN menu_items THEN Fail(req, 404)
    ELSE /\ menu_items' = Without(menu_items, itemId)
         /\ order_items' = MenuDeleteCascade(order_items, itemId)
         /\ last' = Response(req, 200, 0, 0)
         /\ UNCHANGED <<tables, staff, orders, nextOrderId>>

\* ---------------------------------------------- DELETE /api/staff/[id]
\* orders.staff_id REFERENCES staff (id) ON DELETE SET NULL
StaffDeleteSetNull(ords, staffId) ==
    [o \in DOMAIN ords |->
        IF ords[o].staff_id = staffId THEN [ords[o] EXCEPT !.staff_id = NULL] ELSE ords[o]]

StaffDelete(staffId) ==
    LET req == Request("staffDelete", staffId, NoStatus, NoStaff) IN
    IF staffId \notin staff THEN Fail(req, 404)
    ELSE /\ staff' = staff \ {staffId}
         /\ orders' = StaffDeleteSetNull(orders, staffId)
         /\ last' = Response(req, 200, 0, 0)
         /\ UNCHANGED <<tables, menu_items, order_items, nextOrderId>>

\* ------------------------------------------------- PUT /api/tables/[id]
TableStatusInputs == {NoStatus, "Billing", "Closed"}

\* a customerCount that is absent from the body, or falsy (customerCount || null)
NoCount == 0

CustomerCountInputs == {NoCount, 2}

TablePutEveryTable(tableId, status, customerCount) ==
    /\ tables' = [t \in DOMAIN tables |->
          [status |-> IF status \in TableStatuses THEN status ELSE tables[t].status,
           customer_count |-> tables[t].customer_count]]
    /\ last' = Response(Request("tablePut", tableId, status, NoStaff), 200, 0, tableId)
    /\ UNCHANGED <<menu_items, staff, orders, order_items, nextOrderId>>

\* UPDATE tables SET status = COALESCE(?, status),
\*                   customer_count = COALESCE(?, customer_count)
TablePut(tableId, status, customerCount) ==
    LET req == Request("tablePut", tableId, status, NoStaff) IN
    IF status # NoStatus /\ status \notin TableStatuses THEN Fail(req, 400)
    ELSE IF tableId \notin DOMAIN tables THEN Fail(req, 404)
    ELSE /\ tables' = [tables EXCEPT
               ![tableId].status = IF status = NoStatus THEN @ ELSE status,
               ![tableId].customer_count = IF customerCount = NoCount THEN @ ELSE customerCount]
         /\ last' = Response(req, 200, 0, tableId)
         /\ UNCHANGED <<menu_items, staff, orders, order_items, nextOrderId>>

\* ---------------------------------------------- DELETE /api/tables/[id]
TableDeleteKeepingOrders(ords, tableId) == ords

\* orders.table_id REFERENCES tables (id) ON DELETE CASCADE
TableDeleteCascade(ords, tableId) ==
    [o \in {x \in DOMAIN ords : ords[x].table_id # tableId} |-> ords[o]]

\* order_items.order_id REFERENCES orders (id) ON DELETE CASCADE
OrderDeleteCascade(rows, ords) ==
    LET Kept(r) == r.order_id \in DOMAIN ords IN SelectSeq(rows, Kept)

TableDelete(tableId) ==
    LET req == Request("tableDelete", tableId, NoStatus, NoStaff) IN
    IF tableId \notin DOMAIN tables THEN Fail(req, 404)
    ELSE /\ tables' = Without(tables, tableId)
         /\ orders' = TableDeleteCascade(orders, tableId)
         /\ order_items' = OrderDeleteCascade(order_items, TableDeleteCascade(orders, tableId))
         /\ last' = Response(req, 200, 0, 0)
         /\ UNCHANGED <<menu_items, staff, nextOrderId>>

\* ------------------------------------------------- the order workflow
\* scen follows one run of the workflow on one table, by its phase:
\*   1  an order for WorkflowCart (10 x2, 5 x1) was created on a table that was
\*      Free and had no orders
\*   2  then that order was marked Ready
\*   3  then the tables were resynced
\*   4  then that order was marked Paid
\* and any other request ends the run (phase 0).
NoScen == [phase |-> 0, orderId |-> 0, tableId |-> 0]

Marked(status) ==
    /\ last'.op \in {"put", "patch"}
    /\ last'.code = 200
    /\ last'.id = scen.orderId
    /\ last'.status = status

ScenStep ==
    scen' =
        IF /\ last'.op \in {"create", "createV2"}
           /\ last'.code = 201
           /\ cart = WorkflowCart
           /\ menu_items = SeedMenu
           /\ tables[last'.id].status = "Free"
           /\ \A o \in DOMAIN orders : orders[o].table_id # last'.id
        THEN [phase |-> 1, orderId |-> last'.orderId, tableId |-> last'.id]
        ELSE IF scen.phase = 1 /\ Marked("Ready") THEN [scen EXCEPT !.phase = 2]
        ELSE IF scen.phase = 2 /\ last'.op = "sync" THEN [scen EXCEPT !.phase = 3]
        ELSE IF scen.phase = 3 /\ Marked("Paid") THEN [scen EXCEPT !.phase = 4]
        ELSE NoScen

\* --------------------------------------------------------- the machine
\* the store after seedDatabase, before any request
InitDb ==
    /\ tables = [t \in 1..NumTables |-> SeedTables[t]]
    /\ menu_items = SeedMenu
    /\ staff = SeedStaff
    /\ orders = <<>>
    /\ order_items = <<>>
    /\ nextOrderId = 1
    /\ last = Response(Request("none", 0, NoStatus, NoStaff), 0, 0, 0)
    /\ before = tables
    /\ scen = NoScen
    /\ txn = NoTxn
    /\ seen = NoSeen
    /\ run = NoRun

\* what every request leaves behind besides its writes to the store; a
\* handler runs from its first statement to its last without yielding, so no
\* request is served while a transaction is open
Served ==
    /\ txn = NoTxn
    /\ ThreadFree
    /\ ScenStep
    /\ before' = tables
    /\ seen' = NoSeen
    /\ UNCHANGED <<cart, waiter, txn, run>>

Create ==
    /\ \E tableId \in TableIdInputs, staffId \in {NoStaff, waiter} :
          CreateOrder(tableId, cart, staffId)
    /\ Served

CreateV2 ==
    /\ \E tableId \in TableIdInputs : CreateOrderV2(tableId, cart)
    /\ Served

Put ==
    /\ \E orderId \in OrderIdInputs, status \in StatusInputs, staffId \in {NoStaff, waiter} :
          PutOrder(orderId, status, staffId)
    /\ Served

\* the steps of one PUT and the reader, for what is visible between them
StepFrame == UNCHANGED <<cart, waiter, scen>>

PutFirst ==
    /\ \E orderId \in OrderIdInputs, status \in StatusInputs, staffId \in {NoStaff, waiter} :
          PutBegin(orderId, status, staffId)
    /\ run = NoRun
    /\ before' = tables
    /\ seen' = NoSeen
    /\ UNCHANGED run
    /\ StepFrame

PutSecond ==
    /\ PutTable
    /\ seen' = NoSeen
    /\ UNCHANGED <<before, run>>
    /\ StepFrame

PutLast ==
    /\ PutCommit
    /\ seen' = NoSeen
    /\ UNCHANGED <<before, run>>
    /\ StepFrame

Read ==
    /\ \E orderId \in OrderIdInputs : ReadOrder(orderId)
    /\ UNCHANGED <<before, run>>
    /\ StepFrame

\* the steps of one resync and of one cancel
SyncFirst ==
    /\ SyncBegin
    /\ txn = NoTxn
    /\ before' = tables
    /\ UNCHANGED <<txn, seen>>
    /\ StepFrame

SyncReads ==
    /\ SyncRead
    /\ UNCHANGED <<before, txn, seen>>
    /\ StepFrame

SyncWrites ==
    /\ SyncWrite
    /\ UNCHANGED <<before, txn, seen>>
    /\ StepFrame

SyncLast ==
    /\ SyncEnd
    /\ UNCHANGED <<before, txn, seen>>
    /\ StepFrame

CancelFirst ==
    /\ \E orderId \in OrderIdInputs : CancelCheck(orderId)
    /\ txn = NoTxn
    /\ before' = tables
    /\ UNCHANGED <<txn, seen>>
    /\ StepFrame

CancelLast ==
    /\ CancelDelete
    /\ UNCHANGED <<before, txn, seen>>
    /\ StepFrame

TableUpdate ==
    /\ \E tableId \in TableIdInputs, status \in TableStatusInputs,
          customerCount \in CustomerCountInputs : TablePut(tableId, status, customerCount)
    /\ Served

DeleteTable ==
    /\ \E tableId \in TableIdInputs : TableDelete(tableId)
    /\ Served

DeleteMenu ==
    /\ \E itemId \in MenuIdInputs : MenuDelete(itemId)
    /\ Served

DeleteStaff ==
    /\ \E staffId \in StaffIdInputs \ {NoStaff} : StaffDelete(staffId)
    /\ Served

Patch ==
    /\ \E orderId \in OrderIdInputs, status \in StatusInputs : PatchOrderStatus(orderId, status)
    /\ Served

Cancel ==
    /\ \E orderId \in OrderIdInputs : CancelOrder(orderId)
    /\ Served

Sync ==
    /\ SyncStatus
    /\ Served

UpdateMenu ==
    /\ \E itemId \in MenuIdInputs, price \in PriceInputs : MenuPut(itemId, price)
    /\ Served

\* the order workflow: every request of the order service and the resync,
\* the client submitting the workflow's cart
Init == InitDb /\ cart = WorkflowCart /\ waiter = NoStaff

Next == Create \/ CreateV2 \/ Put \/ Patch \/ Cancel \/ Sync

Spec == Init /\ [][Next]_vars

\* order entry: any cart the client can send, against a menu whose prices change
InitCreate == InitDb /\ cart \in ItemListInputs /\ waiter = NoStaff

NextCreate == Create \/ CreateV2 \/ UpdateMenu

SpecCreate == InitCreate /\ [][NextCreate]_vars

\* order entry followed by the resync of the tables
NextCount == Create \/ CreateV2 \/ Cancel \/ Sync

SpecCount == InitCreate /\ [][NextCount]_vars

\* the orders of the workflow, assigned to a member of staff or to an id that
\* has no row
InitStaff == InitDb /\ cart = WorkflowCart /\ waiter \in StaffIdInputs \ {NoStaff}

NextStaff == Create \/ Put \/ Cancel

SpecStaff == InitStaff /\ [][NextStaff]_vars

\* one status update at a time, the PUT statement by statement, and readers
\* between the statements
NextTxn == Create \/ PutFirst \/ PutSecond \/ PutLast \/ Patch \/ Read

SpecTxn == Init /\ [][NextTxn]_vars

\* the resync and the cancel statement by statement, among creates and updates
NextRace ==
    \/ Create \/ Put
    \/ SyncFirst \/ SyncReads \/ SyncWrites \/ SyncLast
    \/ CancelFirst \/ CancelLast

SpecRace == Init /\ [][NextRace]_vars

\* orders assigned to a member of staff, and the rows they refer to deleted
InitDelete == InitDb /\ cart = WorkflowCart /\ waiter \in SeedStaff

NextDelete ==
    \/ Create \/ CreateV2 \/ Cancel
    \/ DeleteTable \/ DeleteMenu \/ DeleteStaff

SpecDelete == InitDelete /\ [][NextDelete]_vars

\* the tables written by the order service, by the resync and by the requests
\* on the tables themselves
NextTables ==
    \/ Create \/ Cancel \/ Sync
    \/ TableUpdate \/ DeleteMenu \/ DeleteStaff

SpecTables == Init /\ [][NextTables]_vars

\* the requests that carry a status, for an order or for a table
NextStatus == Create \/ Put \/ Patch \/ TableUpdate

SpecStatus == Init /\ [][NextStatus]_vars

\* the totals of the orders while the menu changes under them
TotalsCart == <<[id |-> 1, quantity |-> 2]>>

InitTotals == InitDb /\ cart = TotalsCart /\ waiter = NoStaff

NextTotals == Create \/ Put \/ Cancel \/ UpdateMenu \/ DeleteMenu

SpecTotals == InitTotals /\ [][NextTotals]_vars

\* ============================================================== claims
Creates == {"create", "createV2"}

Created(r) == r.op \in Creates /\ r.code = 201

\* C1: a create-order request that succeeds persists, for each line of the
\* request, a row with the quantity asked, the menu item's price as it is when
\* the request is served and subtotal = unit price x quantity; and the order's
\* total is the sum of those subtotals.
C1_CreateTotals ==
    [][Created(last') =>
        LET lines == ItemsOf(order_items', last'.orderId) IN
        /\ Len(lines) = Len(cart)
        /\ \A k \in 1..Len(cart) :
              /\ lines[k].menu_item_id = cart[k].id
              /\ lines[k].quantity = cart[k].quantity
              /\ lines[k].unit_price = menu_items[cart[k].id].price
              /\ lines[k].subtotal = lines[k].unit_price * lines[k].quantity
        /\ orders'[last'.orderId].total_amount = SumSubtotals(lines)]_vars

\* an order of two different items, both with a price that was changed before
\* from the seeded one, was created
C1_Witness ==
    /\ last.op = "create" /\ last.code = 201
    /\ Len(cart) = 2 /\ cart[1].id # cart[2].id
    /\ \A k \in 1..2 : cart[k].quantity = 2
    /\ \A i \in DOMAIN menu_items : menu_items[i] # SeedMenu[i]
    /\ orders[last.orderId].total_amount = 30

\* C2: in every state every order of the store has all the lines of its
\* request, at least one, and the order a create has just returned is Pending.
C2_CreateAtomic ==
    /\ \A o \in DOMAIN orders :
          LET lines == ItemsOf(order_items, o) IN
          /\ Len(lines) = Len(cart)
          /\ Len(lines) >= 1
          /\ \A k \in 1..Len(cart) :
                lines[k].menu_item_id = cart[k].id /\ lines[k].quantity = cart[k].quantity
    /\ Created(last) => last.orderId \in DOMAIN orders
                          /\ orders[last.orderId].status = "Pending"

\* the second order of a two-line cart has just been created
C2_Witness ==
    /\ Created(last) /\ last.orderId = 2
    /\ Len(cart) = 2
    /\ Len(order_items) = 4

\* C3: a create-order request with a menu item that does not exist, in any
\* position of its list, fails and changes no row of the store.
C3_MissingItemNoWrite ==
    [][(last'.op \in Creates /\ \E k \in 1..Len(cart) : cart[k].id \notin DOMAIN menu_items)
        => /\ last'.code \in {400, 404}
           /\ UNCHANGED <<tables, menu_items, orders, order_items, nextOrderId>>]_vars

\* a request whose second line names a missing menu item, after a good first
\* line, was refused
C3_Witness ==
    /\ last.op = "create" /\ last.code = 404 /\ last.id \in DOMAIN tables
    /\ Len(cart) = 2
    /\ cart[1].id \in DOMAIN menu_items /\ cart[1].quantity > 0
    /\ cart[2].id \notin DOMAIN menu_items /\ cart[2].quantity > 0

\* C4: after a create-order request that succeeds the table of the order is
\* Occupied, whatever its status was.
C4_CreateOccupies ==
    Created(last) => tables[last.id].status = "Occupied"

\* an order was created on a table that was in Billing
C4_Witness ==
    /\ Created(last)
    /\ before[last.id].status = "Billing"
    /\ tables[last.id].status = "Occupied"

\* the orders of a table that are not Paid, and their statuses
NonPaid(tableId) ==
    {o \in DOMAIN orders : orders[o].table_id = tableId /\ orders[o].status # "Paid"}

Waiting(tableId) ==
    {o \in NonPaid(tableId) : orders[o].status \in {"Pending", "Preparing"}}

\* the status the resync gives a table: Free without non-Paid orders, Occupied
\* with one that is Pending or Preparing, otherwise Serving
Derived(tableId) ==
    IF NonPaid(tableId) = {} THEN "Free"
    ELSE IF Waiting(tableId) # {} THEN "Occupied"
    ELSE "Serving"

OrderService == {"create", "createV2", "put", "patch", "cancel"}

\* C5: after every request of the order service that went through (create,
\* PUT, PATCH, cancel) the status of the order's table is the one the resync
\* derives from the table's non-Paid orders.
C5_TableFollowsOrders ==
    (last.op \in OrderService /\ last.code \in {200, 201})
        => tables[last.tableId].status = Derived(last.tableId)

\* C6: after a resync a table with a non-Paid order that is Pending or
\* Preparing is Occupied, whatever its other orders are.
C6_SyncWaitingFirst ==
    last.op = "sync" =>
        \A t \in DOMAIN tables : Waiting(t) # {} => tables[t].status = "Occupied"

\* a resync found a table that was Serving with a Ready and a Pending order
C6_Witness ==
    /\ last.op = "sync"
    /\ \E t \in DOMAIN tables :
          /\ {orders[o].status : o \in NonPaid(t)} = {"Ready", "Pending"}
          /\ before[t].status = "Serving"
          /\ tables[t].status = "Occupied"

\* C7: after a resync a table with no orders, or with Paid orders only, is
\* Free and has no customer count, whatever it was.
C7_SyncFrees ==
    last.op = "sync" =>
        \A t \in DOMAIN tables :
            NonPaid(t) = {} => tables[t] = [status |-> "Free", customer_count |-> NULL]

\* a resync found a table in Billing, with a customer count and a Paid order
C7_Witness ==
    /\ last.op = "sync"
    /\ \E t \in DOMAIN tables :
          /\ \E o \in DOMAIN orders : orders[o].table_id = t /\ orders[o].status = "Paid"
          /\ NonPaid(t) = {}
          /\ before[t].status = "Billing" /\ before[t].customer_count # NULL
          /\ tables[t] = [status |-> "Free", customer_count |-> NULL]

\* C8: after a resync a table is Serving exactly when it has a non-Paid order
\* and all its non-Paid orders are Ready or Served.
C8_SyncServing ==
    last.op = "sync" =>
        \A t \in DOMAIN tables :
            tables[t].status = "Serving"
                <=> /\ NonPaid(t) # {}
                    /\ \A o \in NonPaid(t) : orders[o].status \in {"Ready", "Served"}

\* a resync found a table that was Occupied with a Served order and a Paid one
C8_Witness ==
    /\ last.op = "sync"
    /\ \E t \in DOMAIN tables :
          /\ {orders[o].status : o \in DOMAIN orders} = {"Served", "Paid"}
          /\ \A o \in DOMAIN orders : orders[o].table_id = t
          /\ before[t].status = "Occupied"
          /\ tables[t].status = "Serving"

\* C9: a PUT that marks an order Paid leaves the table in Billing when the
\* table has no other non-Paid order, and Occupied when it has one.
C9_PutPaid ==
    (last.op = "put" /\ last.code = 200 /\ last.status = "Paid") =>
        tables[last.tableId].status =
            IF NonPaid(last.tableId) \ {last.id} = {} THEN "Billing" ELSE "Occupied"

\* an order was marked Paid on a table that was Serving and keeps a Ready order
C9_Witness ==
    /\ last.op = "put" /\ last.code = 200 /\ last.status = "Paid"
    /\ orders[last.id].status = "Paid"
    /\ \E o \in NonPaid(last.tableId) : orders[o].status = "Ready"
    /\ before[last.tableId].status = "Serving"
    /\ tables[last.tableId].status = "Occupied"

\* C10: along the workflow (an order of 10 x2 and 5 x1 on a Free table without
\* orders, marked Ready, resync, marked Paid) the total is 25 and the table is
\* Occupied after the create, Serving after the resync, Free after the Paid.
C10_Workflow ==
    /\ scen.phase = 1 => /\ orders[scen.orderId].total_amount = 25
                         /\ tables[scen.tableId].status = "Occupied"
    /\ scen.phase = 3 => tables[scen.tableId].status = "Serving"
    /\ scen.phase = 4 => tables[scen.tableId].status = "Free"

\* C11: a cancel of an order that is not Pending (Preparing, Ready, Served or
\* Paid) is refused with 400 and leaves the orders, the order lines and the
\* tables, status and customer count, as they were.
C11_CancelOnlyPending ==
    [][(last'.op = "cancel" /\ last'.id \in DOMAIN orders
            /\ orders[last'.id].status # "Pending")
        => /\ last'.code = 400
           /\ UNCHANGED <<orders, order_items, tables>>]_vars

\* the cancel of a Preparing order of two lines, on a table with a customer
\* count, was refused
C11_Witness ==
    /\ last.op = "cancel" /\ last.code = 400
    /\ orders[last.id].status = "Preparing"
    /\ Len(ItemsOf(order_items, last.id)) = 2
    /\ tables[orders[last.id].table_id].customer_count # NULL

\* C12: after a cancel that went through the order and its lines are gone; the
\* table is Free without a customer count if it has no non-Paid order left, and
\* as the cancel found it, status and customer count, if it has one.
C12_CancelEffects ==
    (last.op = "cancel" /\ last.code = 200) =>
        /\ last.id \notin DOMAIN orders
        /\ ItemsOf(order_items, last.id) = <<>>
        /\ tables[last.tableId] =
              IF NonPaid(last.tableId) = {}
              THEN [status |-> "Free", customer_count |-> NULL]
              ELSE before[last.tableId]

\* the only Pending order of an Occupied table with a customer count was
\* cancelled, a Paid order staying on the table
C12_Witness ==
    /\ last.op = "cancel" /\ last.code = 200
    /\ \E o \in DOMAIN orders : orders[o].table_id = last.tableId /\ orders[o].status = "Paid"
    /\ before[last.tableId].status = "Occupied"
    /\ before[last.tableId].customer_count # NULL
    /\ tables[last.tableId] = [status |-> "Free", customer_count |-> NULL]

\* the sum of the quantities of the lines of a table's non-Paid orders
QuantityOf(tableId) ==
    LET Test(r) == r.order_id \in NonPaid(tableId) IN SumQuantity(SelectSeq(order_items, Test))

\* C13: after a resync the customer count of a table is the sum of the
\* quantities of the lines of its non-Paid orders when the status derived for
\* it is not Free, and none when it is Free.
C13_SyncCustomerCount ==
    last.op = "sync" =>
        \A t \in DOMAIN tables :
            tables[t].customer_count =
                IF Derived(t) = "Free" THEN NULL ELSE QuantityOf(t)

\* C14: a PUT that went through with a staffId alone leaves the status of the
\* order and the tables as they were, and one with a status alone leaves the
\* staff_id of the order as it was.
C14_PutPartial ==
    [][(last'.op = "put" /\ last'.code = 200) =>
        /\ last'.status = NoStatus =>
              orders'[last'.id].status = orders[last'.id].status /\ tables' = tables
        /\ last'.staffId = NoStaff =>
              orders'[last'.id].staff_id = orders[last'.id].staff_id]_vars

\* a PUT with a status alone marked Served an order that keeps its staff
C14_Witness ==
    /\ last.op = "put" /\ last.code = 200
    /\ last.status = "Served" /\ last.staffId = NoStaff
    /\ orders[last.id].status = "Served"
    /\ orders[last.id].staff_id \in staff

\* C15: a status update (PUT or PATCH) of an order that exists to any of the
\* five statuses answers 200 and leaves the order in that status, whatever
\* its status was.
C15_AnyTransition ==
    (last.op \in {"put", "patch"} /\ last.status \in OrderStatuses
            /\ last.id \in DOMAIN orders)
        => last.code = 200 /\ orders[last.id].status = last.status

\* C16: an update of a menu item leaves every order and every order line as
\* it was, unit price, subtotal and total; a create that follows stores the
\* price the menu has then.
C16_PriceUpdateFrame ==
    [][/\ last'.op = "menuPut" => UNCHANGED <<orders, order_items>>
       /\ Created(last') =>
             \A r \in {ItemsOf(order_items', last'.orderId)[k] : k \in 1..Len(cart)} :
                 r.unit_price = menu_items[r.menu_item_id].price]_vars

\* the price of a menu item was changed while an order has a line of that item
\* at the price it had
C16_Witness ==
    /\ last.op = "menuPut" /\ last.code = 200
    /\ \E k \in DOMAIN order_items :
          /\ order_items[k].menu_item_id = last.id
          /\ order_items[k].unit_price = SeedMenu[last.id].price
          /\ order_items[k].unit_price # menu_items[last.id].price
          /\ order_items[k].subtotal = order_items[k].unit_price * order_items[k].quantity

\* C17: after a resync no table is in Billing.
C17_SyncNoBilling ==
    last.op = "sync" =>
        \A t \in DOMAIN tables : tables[t].status \in {"Free", "Occupied", "Serving"}

\* a resync found a table that a PUT had left in Billing
C17_Witness ==
    /\ last.op = "sync"
    /\ \E t \in DOMAIN tables :
          /\ before[t].status = "Billing"
          /\ tables[t].status = "Free"
          /\ \E o \in DOMAIN orders : orders[o].table_id = t

\* C18: a reader of an order during the PUT that updates it never sees the
\* order with its new status and its table with the status from before the
\* update, when the update changes both.
C18_StatusUpdateAtomic ==
    seen.during # 0 =>
        LET t == txn.orders[seen.id].table_id
            final == PutUpdateTables(txn.tables, orders, seen.id, txn.req.status)
        IN  ~ /\ seen.status = txn.req.status
              /\ txn.orders[seen.id].status # txn.req.status
              /\ seen.tableStatus = txn.tables[t].status
              /\ final[t].status # txn.tables[t].status

\* a reader between the two UPDATEs of a PUT that marks a Pending order Ready
\* saw the order Pending and its table Occupied
C18_Witness ==
    /\ seen.during = 1
    /\ txn.req.status = "Ready"
    /\ orders[seen.id].status = "Ready"
    /\ seen.status = "Pending"
    /\ seen.tableStatus = "Occupied"

\* a cart every create handler accepts: lines of menu items that exist, each
\* with a quantity of at least 1
GoodCart ==
    /\ Len(cart) >= 1
    /\ \A k \in 1..Len(cart) : cart[k].id \in DOMAIN menu_items /\ cart[k].quantity >= 1

\* C19: a create-order request for a table that does not exist, with a cart
\* that is in order, answers 404 (and no order is stored for that table).
C19_MissingTableNotFound ==
    (last.op \in Creates /\ last.id \notin DOMAIN tables /\ GoodCart)
        => /\ last.code = 404
           /\ \A o \in DOMAIN orders : orders[o].table_id # last.id

\* C20: a create-order request, for a table and menu items that exist, with an
\* empty item list or a line of quantity <= 0 answers 400; every order line of
\* the store has quantity >= 1 and every order has a line.
C20_QuantitiesValidated ==
    /\ (/\ last.op \in Creates /\ last.id \in DOMAIN tables
        /\ \A k \in 1..Len(cart) : cart[k].id \in DOMAIN menu_items
        /\ (cart = <<>> \/ \E k \in 1..Len(cart) : cart[k].quantity <= 0))
          => last.code = 400
    /\ \A k \in DOMAIN order_items : order_items[k].quantity >= 1
    /\ \A o \in DOMAIN orders : Len(ItemsOf(order_items, o)) >= 1

\* C21: every order's status is one of the five of the enum and every table's
\* status one of the four; a PUT or PATCH of an order, or a PUT of a table,
\* that carries any other status answers 400 and leaves orders and tables as
\* they were.
C21_StatusEnums ==
    [][/\ \A o \in DOMAIN orders' : orders'[o].status \in OrderStatuses
       /\ \A t \in DOMAIN tables' : tables'[t].status \in TableStatuses
       /\ (/\ last'.op \in {"put", "patch"}
           /\ last'.status \notin OrderStatuses \cup {NoStatus})
             => (last'.code = 400 /\ UNCHANGED <<orders, tables>>)
       /\ (/\ last'.op = "tablePut"
           /\ last'.status \notin TableStatuses \cup {NoStatus})
             => (last'.code = 400 /\ UNCHANGED <<orders, tables>>)]_vars

\* a PUT asked for the status Cancelled on an order that exists
C21_Witness ==
    /\ last.op = "put"
    /\ last.status = "Cancelled"
    /\ last.id \in DOMAIN orders
    /\ last.code = 400

\* C22: every order line belongs to an order of the store and refers to a menu
\* item of the store, every order belongs to a table of the store (and is
\* assigned to a member of staff of the store, or to none).
C22_ReferentialIntegrity ==
    /\ \A k \in DOMAIN order_items :
          /\ order_items[k].order_id \in DOMAIN orders
          /\ order_items[k].menu_item_id \in DOMAIN menu_items
    /\ \A o \in DOMAIN orders :
          /\ orders[o].table_id \in DOMAIN tables
          /\ orders[o].staff_id \in staff \cup {NULL}

\* table 1, Occupied by an order created on it, was deleted while another
\* table keeps an order and its lines
C22_Witness ==
    /\ last.op = "tableDelete"
    /\ last.code = 200
    /\ last.id = 1
    /\ before[1].status = "Occupied"
    /\ 1 \notin DOMAIN tables
    /\ DOMAIN orders # {}
    /\ Len(order_items) >= 1

\* the requests that write the status and the customer count of a table
TableWriters == OrderService \cup {"sync"}

\* C23: the status and the customer count of a table change only in a request
\* of the order service, in a resync, or in a PUT of that very table.
C23_TableWriters ==
    \A t \in DOMAIN tables :
        tables[t] # before[t] =>
            \/ last.op \in TableWriters
            \/ last.op = "tablePut" /\ last.code = 200 /\ last.id = t

\* C23 as stated: the status and the customer count of a table change only in
\* a request of the order service or in a resync.
C23_OnlyOrderServiceAndSync ==
    \A t \in DOMAIN tables : tables[t] # before[t] => last.op \in TableWriters

\* a PUT of a table with an order set it from Occupied to Billing, with a
\* customer count of 2
C23_Witness ==
    /\ last.op = "tablePut"
    /\ last.code = 200
    /\ before[last.id].status = "Occupied"
    /\ tables[last.id] = [status |-> "Billing", customer_count |-> 2]
    /\ \E o \in DOMAIN orders : orders[o].table_id = last.id

\* C24: a PUT of an order with the status Pending or Preparing leaves the
\* order's table Occupied, with Ready or Served it leaves the table Serving,
\* whatever the other orders of the table.
C24_PutDerivesFromOrder ==
    (last.op = "put" /\ last.code = 200) =>
        /\ last.status \in {"Pending", "Preparing"}
              => tables[last.tableId].status = "Occupied"
        /\ last.status \in {"Ready", "Served"}
              => tables[last.tableId].status = "Serving"

\* a PUT marked an order Ready while another order of its table is Pending
C24_Witness ==
    /\ last.op = "put"
    /\ last.code = 200
    /\ last.status = "Ready"
    /\ tables[last.tableId].status = "Serving"
    /\ \E o \in DOMAIN orders \ {last.id} :
          orders[o].table_id = last.tableId /\ orders[o].status = "Pending"

\* C25: the total of every order of the store is the sum of the subtotals of
\* the lines the store holds for it.
C25_TotalMatchesLines ==
    \A o \in DOMAIN orders :
        orders[o].total_amount = SumSubtotals(ItemsOf(order_items, o))

\* C26: a PATCH of an order with the status Paid, when no other order of the
\* table is Pending, Preparing, Ready or Served, leaves the table Free; any
\* other PATCH leaves the table as it was.
C26_PatchTableEffects ==
    (last.op = "patch" /\ last.id \in DOMAIN orders /\ last.status \in OrderStatuses) =>
        LET t == orders[last.id].table_id IN
        IF last.status = "Paid" /\ OtherActiveCount(orders, t, last.id) = 0
        THEN tables[t].status = "Free"
        ELSE tables[t] = before[t]

C29_SyncIdempotent ==
    last.op = "sync" => SyncTables(tables, orders, order_items) = tables

\* a resync gave a table with orders a status and a customer count it did not
\* have
C29_Witness ==
    /\ last.op = "sync"
    /\ \E t \in DOMAIN tables :
          /\ tables[t] # before[t]
          /\ tables[t].status \in {"Occupied", "Serving"}
          /\ tables[t].customer_count # NULL

\* C30: a resync leaves the orders, the order lines, the menu items and the
\* staff as they were, and the store has the same tables after it as before.
C30_SyncFrame ==
    [][last'.op = "sync" =>
          /\ UNCHANGED <<orders, order_items, menu_items, staff, nextOrderId>>
          /\ DOMAIN tables' = DOMAIN tables]_vars

\* a resync changed a table while the store holds a Paid order and its lines
C30_Witness ==
    /\ last.op = "sync"
    /\ tables # before
    /\ \E o \in DOMAIN orders :
          orders[o].status = "Paid" /\ Len(ItemsOf(order_items, o)) >= 1

====
